---------------------------- MODULE Spec2Model ----------------------------
(***************************************************************************)
(* A model of the scene-graph crate: a rose tree kept in a generational    *)
(* arena, with doubly linked sibling lists, and its traversal engines.     *)
(*                                                                         *)
(* A NodeIndex is Root (0) or Branch(h) for an arena handle h >= 1.  An    *)
(* Option<Index> is None (-1) or a handle.  An Option<Children> is a       *)
(* record with a `some` flag.  The arena hands out every handle once: a    *)
(* removed handle is never valid again (generation check), which the       *)
(* model renders by allocating handles from an increasing counter.         *)
(***************************************************************************)
EXTENDS Integers, Sequences, FiniteSets, TLC

\* Bounds: the number of handles one arena hands out over its life, and the
\* number of calls a caller makes on the graph.
MaxHandle == 5
MaxCalls == 5

\* The root of the main graph holds RootValue.  The graph never inspects a
\* value (T is an unconstrained type parameter), so the caller's values are
\* taken pairwise distinct, which tells any two nodes apart in a traversal:
\* the k-th attach call of a graph stores the value k.
RootValue == 0

Root == 0
None == -1

Handles == 1..MaxHandle
NodeIndexes == {Root} \cup Handles

NoChildren == [some |-> FALSE, first |-> None, last |-> None]
SomeChildren(f, l) == [some |-> TRUE, first |-> f, last |-> l]

-----------------------------------------------------------------------------
(* The generational arena (thunderdome), as the crate uses it.             *)

\* A slot that holds no node (its content is never read).
Vacant ==
    [value        |-> None,
     parent       |-> None,
     children     |-> NoChildren,
     last_sibling |-> None,
     next_sibling |-> None]

\* `live` is the set of handles that are present; `next` the next handle to hand out.
ArenaNew == [live |-> {}, slots |-> [h \in Handles |-> Vacant], next |-> 1]

ArenaContains(arena, idx) == idx \in arena.live

ArenaLen(arena) == Cardinality(arena.live)

ArenaInsert(arena, node) ==
    [live  |-> arena.live \cup {arena.next},
     slots |-> [arena.slots EXCEPT ![arena.next] = node],
     next  |-> arena.next + 1]

ArenaRemove(arena, idx) ==
    [arena EXCEPT !.live = arena.live \ {idx}, !.slots[idx] = Vacant]

ArenaClear(arena) == [arena EXCEPT !.live = {}, !.slots = [h \in Handles |-> Vacant]]

-----------------------------------------------------------------------------
(* Node and SceneGraph.                                                    *)

NodeNew(value, parent) ==
    [value        |-> value,
     parent       |-> parent,
     children     |-> NoChildren,
     last_sibling |-> None,
     next_sibling |-> None]

SceneGraphNew(root) == [arena |-> ArenaNew, root |-> root, root_children |-> NoChildren]

\* clear that empties the arena and forgets to reset the Root's child list.
clear_KeepChildren(sg) == [sg EXCEPT !.arena = ArenaClear(sg.arena)]

clear(sg) == [sg EXCEPT !.arena = ArenaClear(sg.arena), !.root_children = NoChildren]

len(sg) == ArenaLen(sg.arena)

is_empty(sg) == ~sg.root_children.some

contains(sg, node_index) ==
    IF node_index = Root THEN TRUE ELSE ArenaContains(sg.arena, node_index)

\* The child-list head of `parent`: root_children, or the node's children field.
ChildrenOf(sg, parent) ==
    IF parent = Root THEN sg.root_children ELSE sg.arena.slots[parent].children

SetChildrenOf(sg, parent, ch) ==
    IF parent = Root THEN [sg EXCEPT !.root_children = ch]
    ELSE [sg EXCEPT !.arena.slots[parent].children = ch]

\* Results of the operations: the graph afterwards and how the call ended.
\* "Panic" is an unwrap of None or an index of an absent arena slot.
Outcome(sg, res) == [sg |-> sg, res |-> res]

\* get: Root and absent handles give None, a present handle a reference to
\* its node (Node is Copy: the caller can keep a copy of what it reads).
get(sg, node_index) ==
    IF node_index = Root \/ ~ArenaContains(sg.arena, node_index)
    THEN [some |-> FALSE, node |-> Vacant]
    ELSE [some |-> TRUE, node |-> sg.arena.slots[node_index]]

\* get_mut followed by an assignment through the reference it returns,
\* `*sg.get_mut(node_index)? = node`: the whole node, links included, is
\* overwritten.  Root and absent handles give None and nothing is written.
get_mut(sg, node_index, node) ==
    IF node_index = Root \/ ~ArenaContains(sg.arena, node_index)
    THEN Outcome(sg, "None")
    ELSE Outcome([sg EXCEPT !.arena.slots[node_index] = node], "Some")

\* root_mut followed by an assignment: `*sg.root_mut() = value`.
root_mut(sg, value) == [sg EXCEPT !.root = value]


-----------------------------------------------------------------------------
(* Linking and unlinking: place_node and fix_parent.                       *)

\* place_node: links node_to_place as the new last child of new_parent.
place_node(sg, new_parent, node_to_place) ==
    IF new_parent # Root /\ ~ArenaContains(sg.arena, new_parent)
    THEN Outcome(sg, "ParentNodeNotFound")
    ELSE LET parent_children == ChildrenOf(sg, new_parent) IN
         IF parent_children.some
         THEN LET old_last == parent_children.last
                  sg1 == SetChildrenOf(sg, new_parent,
                                       [parent_children EXCEPT !.last = node_to_place])
              IN  IF ~ArenaContains(sg1.arena, old_last)
                  THEN Outcome(sg1, "Panic")
                  ELSE LET sg2 == [sg1 EXCEPT
                                     !.arena.slots[old_last].next_sibling = node_to_place]
                       IN  IF ~ArenaContains(sg2.arena, node_to_place)
                           THEN Outcome(sg2, "Panic")
                           ELSE Outcome([sg2 EXCEPT
                                           !.arena.slots[node_to_place].last_sibling = old_last],
                                        "Ok")
         ELSE Outcome(SetChildrenOf(sg, new_parent,
                                    SomeChildren(node_to_place, node_to_place)),
                      "Ok")

\* The splice of fix_parent's else branch: the former neighbours are linked to
\* each other and the parent's updated head is written back.
fix_parent_splice(sg, removed_next_sibling, removed_last_sibling, removed_parent, pc) ==
    IF removed_last_sibling # None /\ ~ArenaContains(sg.arena, removed_last_sibling)
    THEN Outcome(sg, "Panic")
    ELSE LET sg1 == IF removed_last_sibling # None
                    THEN [sg EXCEPT !.arena.slots[removed_last_sibling].next_sibling =
                                        removed_next_sibling]
                    ELSE sg
         IN  IF removed_next_sibling # None /\ ~ArenaContains(sg1.arena, removed_next_sibling)
             THEN Outcome(sg1, "Panic")
             ELSE LET sg2 == IF removed_next_sibling # None
                             THEN [sg1 EXCEPT
                                     !.arena.slots[removed_next_sibling].last_sibling =
                                         removed_last_sibling]
                             ELSE sg1
                  IN  IF removed_parent # Root /\ ~ArenaContains(sg2.arena, removed_parent)
                      THEN Outcome(sg2, "Panic")
                      ELSE Outcome(SetChildrenOf(sg2, removed_parent, pc), "Ok")

\* fix_parent that leaves the parent's `last` on the removed node.
fix_parent_KeepLast(sg, removed_next_sibling, removed_last_sibling, removed_parent, removed_idx) ==
    IF removed_parent # Root /\ ~ArenaContains(sg.arena, removed_parent)
    THEN Outcome(sg, "Panic")
    ELSE LET parent_children == ChildrenOf(sg, removed_parent) IN
         IF ~parent_children.some
         THEN Outcome(sg, "Panic")
         ELSE IF parent_children.first = parent_children.last
                 /\ parent_children.first = removed_idx
              THEN Outcome(SetChildrenOf(sg, removed_parent, NoChildren), "Ok")
              ELSE IF parent_children.first = removed_idx /\ removed_next_sibling = None
                   THEN Outcome(sg, "Panic")
                   ELSE LET pc1 == IF parent_children.first = removed_idx
                                   THEN [parent_children EXCEPT !.first = removed_next_sibling]
                                   ELSE parent_children
                        IN  fix_parent_splice(sg, removed_next_sibling,
                                              removed_last_sibling, removed_parent, pc1)

\* fix_parent: heals the child list of removed_parent after removed_idx left it.
fix_parent(sg, removed_next_sibling, removed_last_sibling, removed_parent, removed_idx) ==
    IF removed_parent # Root /\ ~ArenaContains(sg.arena, removed_parent)
    THEN Outcome(sg, "Panic")
    ELSE LET parent_children == ChildrenOf(sg, removed_parent) IN
         IF ~parent_children.some
         THEN Outcome(sg, "Panic")
         ELSE IF parent_children.first = parent_children.last
                 /\ parent_children.first = removed_idx
              THEN Outcome(SetChildrenOf(sg, removed_parent, NoChildren), "Ok")
              ELSE IF parent_children.first = removed_idx /\ removed_next_sibling = None
                   THEN Outcome(sg, "Panic")
                   ELSE LET pc1 == IF parent_children.first = removed_idx
                                   THEN [parent_children EXCEPT !.first = removed_next_sibling]
                                   ELSE parent_children
                        IN  IF pc1.last = removed_idx /\ removed_last_sibling = None
                            THEN Outcome(sg, "Panic")
                            ELSE LET pc2 == IF pc1.last = removed_idx
                                            THEN [pc1 EXCEPT !.last = removed_last_sibling]
                                            ELSE pc1
                                 IN  fix_parent_splice(sg, removed_next_sibling,
                                                       removed_last_sibling,
                                                       removed_parent, pc2)

-----------------------------------------------------------------------------
(* attach and move_node.                                                   *)

\* attach: the new node is inserted into the arena, then placed.  `idx` is the
\* handle of the inserted node (returned on success).
attach(sg, parent, value) ==
    LET new_idx == sg.arena.next
        sg1 == [sg EXCEPT !.arena = ArenaInsert(sg.arena, NodeNew(value, parent))]
        placed == place_node(sg1, parent, new_idx)
    IN  [sg |-> placed.sg, res |-> placed.res, idx |-> new_idx]

attach_at_root(sg, value) ==
    LET r == attach(sg, Root, value)
    IN  [r EXCEPT !.res = IF r.res = "Ok" THEN "Ok" ELSE "Panic"]

\* move_node with the new parent checked only after the node was relabelled.
move_node_LateCheck(sg, moving_node_idx, new_parent) ==
    IF moving_node_idx = Root \/ ~ArenaContains(sg.arena, moving_node_idx)
    THEN Outcome(sg, "NodeDoesNotExist")
    ELSE LET sg1 == [sg EXCEPT !.arena.slots[moving_node_idx].parent = new_parent,
                               !.arena.slots[moving_node_idx].next_sibling = None]
         IN  IF new_parent # Root /\ ~ArenaContains(sg.arena, new_parent)
             THEN Outcome(sg1, "NodeDoesNotExist")
             ELSE LET moving_node == sg.arena.slots[moving_node_idx]
                      fixed == fix_parent(sg1, moving_node.next_sibling,
                                          moving_node.last_sibling, moving_node.parent,
                                          moving_node_idx)
                  IN  IF fixed.res # "Ok"
                      THEN fixed
                      ELSE LET placed == place_node(fixed.sg, new_parent, moving_node_idx)
                           IN  IF placed.res = "Ok" THEN placed
                               ELSE Outcome(placed.sg, "Panic")

\* move_node: both handles are checked, then the node is unlinked from its old
\* parent and placed under the new one.
move_node(sg, moving_node_idx, new_parent) ==
    IF moving_node_idx = Root \/ ~ArenaContains(sg.arena, moving_node_idx)
    THEN Outcome(sg, "NodeDoesNotExist")
    ELSE IF new_parent # Root /\ ~ArenaContains(sg.arena, new_parent)
    THEN Outcome(sg, "NodeDoesNotExist")
    ELSE LET moving_node == sg.arena.slots[moving_node_idx]
             old_parent == moving_node.parent
             next_sibling == moving_node.next_sibling
             last_sibling == moving_node.last_sibling
             sg1 == [sg EXCEPT !.arena.slots[moving_node_idx].parent = new_parent,
                               !.arena.slots[moving_node_idx].next_sibling = None]
             fixed == fix_parent(sg1, next_sibling, last_sibling, old_parent, moving_node_idx)
         IN  IF fixed.res # "Ok"
             THEN fixed
             ELSE LET placed == place_node(fixed.sg, new_parent, moving_node_idx)
                  IN  IF placed.res = "Ok" THEN placed ELSE Outcome(placed.sg, "Panic")

-----------------------------------------------------------------------------
(* The detaching traversal (SceneGraphDetachIter).  The iterator works on  *)
(* the arena it borrows; a frame owns the node it took out of the arena.   *)

DetachFrame(parent, first_child, first_child_idx) ==
    [parent |-> parent, current_child |-> first_child, current_child_idx |-> first_child_idx]

\* The iterator: the arena as it stands, the work stack (front first), and
\* whether an unwrap failed.
DetachIter(arena, stacks, panic) == [arena |-> arena, stacks |-> stacks, panic |-> panic]

\* push_front of the frame for `idx` under `parent`: the node leaves the arena.
DetachPush(it, parent, idx) ==
    IF it.panic THEN it
    ELSE IF ~ArenaContains(it.arena, idx)
    THEN [it EXCEPT !.panic = TRUE]
    ELSE DetachIter(ArenaRemove(it.arena, idx),
                    <<DetachFrame(parent, it.arena.slots[idx], idx)>> \o it.stacks,
                    FALSE)

DetachIterNew(arena, head_index, current_children) ==
    IF current_children.some
    THEN DetachPush(DetachIter(arena, <<>>, FALSE), head_index, current_children.first)
    ELSE DetachIter(arena, <<>>, FALSE)

\* A detached node, as yielded.
DetachedNode(parent_idx, node_idx, node_value) ==
    [parent_idx |-> parent_idx, node_idx |-> node_idx, node_value |-> node_value]

\* next() that files the frame of the first child under that child's own
\* index instead of the index of the node being yielded.
DetachIterNextIt_ChildUnderItself(it) ==
    LET stack_frame == Head(it.stacks)
        it0 == [it EXCEPT !.stacks = Tail(it.stacks)]
        it1 == IF stack_frame.current_child.next_sibling # None
               THEN DetachPush(it0, stack_frame.parent, stack_frame.current_child.next_sibling)
               ELSE it0
    IN  IF stack_frame.current_child.children.some
        THEN DetachPush(it1, stack_frame.current_child.children.first,
                        stack_frame.current_child.children.first)
        ELSE it1

\* next() on a non-empty stack: the iterator afterwards (stacks non-empty is
\* the caller's guard; an empty stack yields None and changes nothing).
DetachIterNextIt(it) ==
    LET stack_frame == Head(it.stacks)
        it0 == [it EXCEPT !.stacks = Tail(it.stacks)]
        it1 == IF stack_frame.current_child.next_sibling # None
               THEN DetachPush(it0, stack_frame.parent, stack_frame.current_child.next_sibling)
               ELSE it0
        it2 == IF stack_frame.current_child.children.some
               THEN DetachPush(it1, stack_frame.current_child_idx,
                               stack_frame.current_child.children.first)
               ELSE it1
    IN  it2

\* The item that next() yields on a non-empty stack.
DetachIterNextItem(it) ==
    LET stack_frame == Head(it.stacks)
    IN  DetachedNode(stack_frame.parent, stack_frame.current_child_idx,
                     stack_frame.current_child.value)

\* Runs the iterator to its end (a for loop, or the drain on drop): the items
\* yielded, in order, and the iterator at the end.
RECURSIVE DetachIterRun(_, _)
DetachIterRun(it, items) ==
    IF it.panic \/ it.stacks = <<>>
    THEN [it |-> it, items |-> items]
    ELSE LET nxt == DetachIterNextIt(it)
         IN  IF nxt.panic
             THEN [it |-> nxt, items |-> items]
             ELSE DetachIterRun(nxt, Append(items, DetachIterNextItem(it)))

\* The iterator after the for loop that owns it has ended.  When next()
\* panicked, the unwinding drops the iterator and Drop (`for _ in self {}`)
\* goes on taking the frames still on the stack out of the arena; a second
\* panic, inside that drain, aborts the process with the arena as it stands.
DetachIterUnwind(it) ==
    IF ~it.panic THEN it
    ELSE [DetachIterRun([it EXCEPT !.panic = FALSE], <<>>).it EXCEPT !.panic = TRUE]

-----------------------------------------------------------------------------
(* remove, detach and attach_graph.                                        *)

\* remove that returns silently when it is given Root.
remove_RootReturns(sg, node_index) ==
    IF node_index = Root \/ ~ArenaContains(sg.arena, node_index) THEN Outcome(sg, "Ok")
    ELSE LET node == sg.arena.slots[node_index]
             run == DetachIterRun(DetachIterNew(ArenaRemove(sg.arena, node_index),
                                                node_index, node.children), <<>>)
             sg1 == [sg EXCEPT !.arena = DetachIterUnwind(run.it).arena]
         IN  IF run.it.panic
             THEN Outcome(sg1, "Panic")
             ELSE fix_parent(sg1, node.next_sibling, node.last_sibling, node.parent,
                             node_index)

\* remove: the node leaves the arena, its subtree is drained, its parent healed.
remove(sg, node_index) ==
    IF node_index = Root THEN Outcome(sg, "Panic")
    ELSE IF ~ArenaContains(sg.arena, node_index) THEN Outcome(sg, "Ok")
    ELSE LET node == sg.arena.slots[node_index]
             run == DetachIterRun(DetachIterNew(ArenaRemove(sg.arena, node_index),
                                                node_index, node.children), <<>>)
             sg1 == [sg EXCEPT !.arena = DetachIterUnwind(run.it).arena]
         IN  IF run.it.panic
             THEN Outcome(sg1, "Panic")
             ELSE fix_parent(sg1, node.next_sibling, node.last_sibling, node.parent,
                             node_index)

\* The reconstruction loop shared by detach and attach_graph: every detached
\* node is attached to `target` under the new handle of its old parent.
\* helper_map is a set of <<old, new>> pairs.  rootIsRoot is detach's match arm
\* that maps an old parent Root to Root without consulting the map.
HelperGet(helper_map, old) ==
    IF \E e \in helper_map : e[1] = old
    THEN (CHOOSE e \in helper_map : e[1] = old)[2]
    ELSE None

HelperInsert(helper_map, old, new) ==
    {e \in helper_map : e[1] # old} \cup {<<old, new>>}

RECURSIVE Reattach(_, _, _, _)
Reattach(target, items, helper_map, rootIsRoot) ==
    IF items = <<>> THEN Outcome(target, "Ok")
    ELSE LET detached_node == Head(items)
             parent_place == IF rootIsRoot /\ detached_node.parent_idx = Root
                             THEN Root
                             ELSE HelperGet(helper_map, detached_node.parent_idx)
         IN  IF parent_place = None
             THEN Outcome(target, "Panic")
             ELSE LET a == attach(target, parent_place, detached_node.node_value)
                  IN  IF a.res # "Ok"
                      THEN Outcome(a.sg, "Panic")
                      ELSE Reattach(a.sg, Tail(items),
                                    HelperInsert(helper_map, detached_node.node_idx, a.idx),
                                    rootIsRoot)

\* detach that rejects only absent handles: Root is treated as a node whose
\* subtree is the whole graph, which is drained before None is returned.
detach_RootDrained(sg, node_index) ==
    IF node_index = Root
    THEN [sg |-> clear(sg), res |-> "None", new_sg |-> SceneGraphNew(RootValue)]
    ELSE IF ~ArenaContains(sg.arena, node_index)
    THEN [sg |-> sg, res |-> "None", new_sg |-> SceneGraphNew(RootValue)]
    ELSE LET node == sg.arena.slots[node_index]
             run == DetachIterRun(DetachIterNew(ArenaRemove(sg.arena, node_index),
                                                node_index, node.children), <<>>)
             sg1 == [sg EXCEPT !.arena = DetachIterUnwind(run.it).arena]
             rebuilt == Reattach(SceneGraphNew(node.value), run.items,
                                 {<<node_index, Root>>}, TRUE)
             fixed == fix_parent(sg1, node.next_sibling, node.last_sibling, node.parent,
                                 node_index)
         IN  IF run.it.panic \/ rebuilt.res # "Ok"
             THEN [sg |-> sg1, res |-> "Panic", new_sg |-> rebuilt.sg]
             ELSE [sg |-> fixed.sg,
                   res |-> IF fixed.res = "Ok" THEN "Some" ELSE "Panic",
                   new_sg |-> rebuilt.sg]

\* detach: res is "Some" with the new graph in new_sg, "None", or "Panic".
detach(sg, node_index) ==
    IF node_index = Root \/ ~ArenaContains(sg.arena, node_index)
    THEN [sg |-> sg, res |-> "None", new_sg |-> SceneGraphNew(RootValue)]
    ELSE LET node == sg.arena.slots[node_index]
             new_sg == SceneGraphNew(node.value)
             run == DetachIterRun(DetachIterNew(ArenaRemove(sg.arena, node_index),
                                                node_index, node.children), <<>>)
             sg1 == [sg EXCEPT !.arena = DetachIterUnwind(run.it).arena]
             rebuilt == Reattach(new_sg, run.items, {<<node_index, Root>>}, TRUE)
             fixed == fix_parent(sg1, node.next_sibling, node.last_sibling, node.parent,
                                 node_index)
         IN  IF run.it.panic \/ rebuilt.res # "Ok"
             THEN [sg |-> sg1, res |-> "Panic", new_sg |-> rebuilt.sg]
             ELSE [sg |-> fixed.sg,
                   res |-> IF fixed.res = "Ok" THEN "Some" ELSE "Panic",
                   new_sg |-> rebuilt.sg]

\* attach_graph_unsafe: other_graph's root value is attached under parent, then
\* other_graph is drained from its root and rebuilt below the new node.  Each
\* node is attached as the traversal yields it, so the nodes yielded before a
\* panic of the traversal are in the graph when the panic leaves the call.
attach_graph_unsafe(sg, parent, other_graph) ==
    LET first == attach(sg, parent, other_graph.root)
        new_root_idx == first.idx
        run == DetachIterRun(DetachIterNew(other_graph.arena, Root,
                                           other_graph.root_children), <<>>)
        rebuilt == Reattach(first.sg, run.items, {<<Root, new_root_idx>>}, FALSE)
    IN  IF first.res # "Ok"
        THEN first
        ELSE [sg |-> rebuilt.sg,
              res |-> IF run.it.panic THEN "Panic" ELSE rebuilt.res,
              idx |-> new_root_idx]

-----------------------------------------------------------------------------
(* The read-only depth-first traversal (SceneGraphIter) and the            *)
(* direct-children traversal (SceneGraphChildIter).                        *)

ValueOf(sg, node_index) ==
    IF node_index = Root THEN sg.root ELSE sg.arena.slots[node_index].value

IterFrame(parent, first_child) == [parent |-> parent, current_child |-> first_child]

\* The iterator: its stack (top last) and whether an arena index failed.
IterState(stacks, panic) == [stacks |-> stacks, panic |-> panic]

\* Pushes the frame of `idx` under `parent`; &arena[idx] fails on an absent slot.
IterPush(sg, st, parent, idx) ==
    IF st.panic THEN st
    ELSE IF ~ArenaContains(sg.arena, idx) THEN [st EXCEPT !.panic = TRUE]
    ELSE IterState(Append(st.stacks, IterFrame(parent, idx)), FALSE)

IterNew(sg, node_index) ==
    LET children == ChildrenOf(sg, node_index)
    IN  IF children.some
        THEN IterPush(sg, IterState(<<>>, FALSE), node_index, children.first)
        ELSE IterState(<<>>, FALSE)

\* next() that pushes the first child below the next sibling.
IterNextState_SiblingOnTop(sg, st) ==
    LET n == Len(st.stacks)
        stack_frame == st.stacks[n]
        current_child == sg.arena.slots[stack_frame.current_child]
        st0 == [st EXCEPT !.stacks = SubSeq(st.stacks, 1, n - 1)]
        st1 == IF current_child.children.some
               THEN IterPush(sg, st0, stack_frame.current_child, current_child.children.first)
               ELSE st0
        st2 == IF current_child.next_sibling # None
               THEN IterPush(sg, st1, stack_frame.parent, current_child.next_sibling)
               ELSE st1
    IN  st2

\* next() on a non-empty stack: the iterator afterwards.
IterNextState(sg, st) ==
    LET n == Len(st.stacks)
        stack_frame == st.stacks[n]
        current_child == sg.arena.slots[stack_frame.current_child]
        st0 == [st EXCEPT !.stacks = SubSeq(st.stacks, 1, n - 1)]
        st1 == IF current_child.next_sibling # None
               THEN IterPush(sg, st0, stack_frame.parent, current_child.next_sibling)
               ELSE st0
        st2 == IF current_child.children.some
               THEN IterPush(sg, st1, stack_frame.current_child, current_child.children.first)
               ELSE st1
    IN  st2

\* The pair next() yields on a non-empty stack: (parent value, node value).  The
\* handles of the two nodes are kept beside the values for the properties.
IterNextItem(sg, st) ==
    LET stack_frame == st.stacks[Len(st.stacks)]
    IN  [parent     |-> ValueOf(sg, stack_frame.parent),
         value      |-> ValueOf(sg, stack_frame.current_child),
         parent_idx |-> stack_frame.parent,
         node_idx   |-> stack_frame.current_child]

\* Collects the traversal.  A traversal of a well-formed graph yields at most
\* len() items; one that yields more than `fuel` items is reported "Diverges".
RECURSIVE IterRun(_, _, _, _)
IterRun(sg, st, items, fuel) ==
    IF st.panic THEN [items |-> items, res |-> "Panic"]
    ELSE IF st.stacks = <<>> THEN [items |-> items, res |-> "Ok"]
    ELSE IF fuel = 0 THEN [items |-> items, res |-> "Diverges"]
    ELSE LET nxt == IterNextState(sg, st)
         IN  IF nxt.panic
             THEN [items |-> items, res |-> "Panic"]
             ELSE IterRun(sg, nxt, Append(items, IterNextItem(sg, st)), fuel - 1)

IterFuel == 2 * MaxHandle + 2

\* iter_from_node that answers an absent handle with an empty traversal.
iter_from_node_EmptyOnAbsent(sg, node_index) ==
    IF node_index # Root /\ ~ArenaContains(sg.arena, node_index)
    THEN [items |-> <<>>, res |-> "Ok"]
    ELSE IterRun(sg, IterNew(sg, node_index), <<>>, IterFuel)

\* iter_from_node, collected: res is "NodeDoesNotExist", "Ok", "Panic" or "Diverges".
iter_from_node(sg, node_index) ==
    IF node_index # Root /\ ~ArenaContains(sg.arena, node_index)
    THEN [items |-> <<>>, res |-> "NodeDoesNotExist"]
    ELSE IterRun(sg, IterNew(sg, node_index), <<>>, IterFuel)

\* iter(): iter_from_node(Root).unwrap().
iter(sg) == iter_from_node(sg, Root)

\* The values and the handles of a collected traversal.
Pairs(items) == [i \in 1..Len(items) |-> <<items[i].parent, items[i].value>>]
NodeValues(items) == [i \in 1..Len(items) |-> items[i].value]
NodeIdxs(items) == [i \in 1..Len(items) |-> items[i].node_idx]

\* SceneGraphChildIter, collected: follows next_sibling from children.first.
\* current_node is a present node; the step to its next sibling fails on an
\* absent slot before the current node is yielded.
RECURSIVE ChildIterRun(_, _, _, _)
ChildIterRun(sg, current_node, items, fuel) ==
    IF current_node = None THEN [items |-> items, res |-> "Ok"]
    ELSE IF fuel = 0 THEN [items |-> items, res |-> "Diverges"]
    ELSE LET nxt == sg.arena.slots[current_node].next_sibling
         IN  IF nxt # None /\ ~ArenaContains(sg.arena, nxt)
             THEN [items |-> items, res |-> "Panic"]
             ELSE ChildIterRun(sg, nxt, Append(items, current_node), fuel - 1)

\* iter_direct_children, collected as the handles of the children yielded.
iter_direct_children(sg, parent_index) ==
    IF parent_index # Root /\ ~ArenaContains(sg.arena, parent_index)
    THEN [items |-> <<>>, res |-> "NodeDoesNotExist"]
    ELSE LET children == ChildrenOf(sg, parent_index)
         IN  IF ~children.some
             THEN [items |-> <<>>, res |-> "Ok"]
             ELSE IF ~ArenaContains(sg.arena, children.first)
             THEN [items |-> <<>>, res |-> "Panic"]
             ELSE ChildIterRun(sg, children.first, <<>>, IterFuel)

-----------------------------------------------------------------------------
(* The mutable depth-first traversal (SceneGraphIterMut).  Its frames hold *)
(* handles; the arena is consulted when a frame is popped.                 *)

IterMutNew(sg, root_node_idx) ==
    LET children == ChildrenOf(sg, root_node_idx)
    IN  IF children.some
        THEN IterState(<<IterFrame(root_node_idx, children.first)>>, FALSE)
        ELSE IterState(<<>>, FALSE)

\* The frame on top cannot be borrowed: the child is absent, the parent is
\* absent, or get2_mut is given the same index twice.
IterMutBorrowFails(sg, stack_frame) ==
    \/ ~ArenaContains(sg.arena, stack_frame.current_child)
    \/ /\ stack_frame.parent # Root
       /\ \/ stack_frame.parent = stack_frame.current_child
          \/ ~ArenaContains(sg.arena, stack_frame.parent)

\* next() on a non-empty stack: the iterator afterwards.
IterMutNextState(sg, st) ==
    LET n == Len(st.stacks)
        stack_frame == st.stacks[n]
        current_child == sg.arena.slots[stack_frame.current_child]
        st0 == SubSeq(st.stacks, 1, n - 1)
        st1 == IF current_child.next_sibling # None
               THEN Append(st0, IterFrame(stack_frame.parent, current_child.next_sibling))
               ELSE st0
        st2 == IF current_child.children.some
               THEN Append(st1, IterFrame(stack_frame.current_child,
                                          current_child.children.first))
               ELSE st1
    IN  IF IterMutBorrowFails(sg, stack_frame)
        THEN IterState(st0, TRUE)
        ELSE IterState(st2, FALSE)

\* Collects the traversal; the items are those of IterNextItem, each standing
\* for the pair of mutable references to the two values.
RECURSIVE IterMutRun(_, _, _, _)
IterMutRun(sg, st, items, fuel) ==
    IF st.panic THEN [items |-> items, res |-> "Panic"]
    ELSE IF st.stacks = <<>> THEN [items |-> items, res |-> "Ok"]
    ELSE IF fuel = 0 THEN [items |-> items, res |-> "Diverges"]
    ELSE LET nxt == IterMutNextState(sg, st)
         IN  IF nxt.panic
             THEN [items |-> items, res |-> "Panic"]
             ELSE IterMutRun(sg, nxt, Append(items, IterNextItem(sg, st)), fuel - 1)

\* iter_mut_from_node, collected.
iter_mut_from_node(sg, node_index) ==
    IF node_index # Root /\ ~ArenaContains(sg.arena, node_index)
    THEN [items |-> <<>>, res |-> "NodeDoesNotExist"]
    ELSE IterMutRun(sg, IterMutNew(sg, node_index), <<>>, IterFuel)

\* iter_mut(): iter_mut_from_node(Root).unwrap().
iter_mut(sg) == iter_mut_from_node(sg, Root)

\* The graph after `value` has been written through the child reference of
\* each of the items, in order.
RECURSIVE WriteChildren(_, _, _)
WriteChildren(sg, items, value) ==
    IF items = <<>> THEN sg
    ELSE WriteChildren([sg EXCEPT !.arena.slots[Head(items).node_idx].value = value],
                       Tail(items), value)

\* `for (_, v) in sg.iter_mut_from_node(node_index)? { *v = value }`: the
\* children yielded before the traversal ends or panics have been written.
iter_mut_write(sg, node_index, value) ==
    LET r == iter_mut_from_node(sg, node_index)
    IN  Outcome(WriteChildren(sg, r.items, value), r.res)

-----------------------------------------------------------------------------
(* Nodes, ancestors and subtrees.                                          *)

Live(g) == g.arena.live
Parents(g) == {Root} \cup Live(g)
NodeAt(g, n) == g.arena.slots[n]

\* d is a proper descendant of a: the parent chain of d meets a.
RECURSIVE IsDescendant(_, _, _, _)
IsDescendant(g, d, a, fuel) ==
    IF d = Root \/ d \notin Live(g) \/ fuel = 0 THEN FALSE
    ELSE IF NodeAt(g, d).parent = a THEN TRUE
    ELSE IsDescendant(g, NodeAt(g, d).parent, a, fuel - 1)

\* x is n or a proper descendant of n.
InSubtree(g, x, n) == x = n \/ IsDescendant(g, x, n, MaxHandle + 1)

\* n and the transitive descendants of n.
Subtree(g, n) == {x \in Live(g) : InSubtree(g, x, n)}

\* The proper descendants of n.
Descendants(g, n) == {x \in Live(g) : IsDescendant(g, x, n, MaxHandle + 1)}

-----------------------------------------------------------------------------
(* The state machine: one graph under a sequence of public calls.          *)

VARIABLES
    sg,      \* the scene graph
    held,    \* the graph the last successful detach returned, until it is attached
    diter,   \* the detaching traversal the caller holds, if any; `below` keeps
             \* the descendants its start node had when it was created
    last,    \* the last call: its name, its arguments and how it ended
    calls,   \* the number of calls made so far
    saved    \* the copy of a node the caller took with get, if any

vars == <<sg, held, diter, last, calls, saved>>

NoGraph == [some |-> FALSE, graph |-> SceneGraphNew(RootValue)]
NoIter == [live |-> FALSE, head |-> None, stacks |-> <<>>, below |-> {}]
NoNode == [some |-> FALSE, node |-> Vacant]
Call(op, a, b, res) == [op |-> op, a |-> a, b |-> b, res |-> res]

\* The handles a caller can hold: Root and every handle handed out so far.
Known == {Root} \cup (1..(sg.arena.next - 1))

\* The value of the next attach call.
FreshValues == {sg.arena.next}

\* A call can be made: no panic has ended the program and no traversal
\* borrows the graph.
Ready == last.res # "Panic" /\ ~diter.live /\ calls < MaxCalls

Init ==
    /\ sg = SceneGraphNew(RootValue)
    /\ held = NoGraph
    /\ saved = NoNode
    /\ diter = NoIter
    /\ last = Call("new", None, None, "Ok")
    /\ calls = 0

Attach(parent, value) ==
    /\ Ready
    /\ calls' = calls + 1
    /\ sg.arena.next <= MaxHandle
    /\ LET r == attach(sg, parent, value)
       IN  /\ sg' = r.sg
           /\ last' = Call("attach", parent, r.idx, r.res)
    /\ UNCHANGED <<held, diter, saved>>

AttachGraph(parent) ==
    /\ Ready
    /\ calls' = calls + 1
    /\ held.some
    /\ sg.arena.next + len(held.graph) <= MaxHandle
    /\ LET r == attach_graph_unsafe(sg, parent, held.graph)
       IN  /\ sg' = r.sg
           /\ last' = Call("attach_graph", parent, r.idx, r.res)
    /\ held' = NoGraph
    /\ UNCHANGED <<diter, saved>>

Detach(node_index) ==
    /\ Ready
    /\ calls' = calls + 1
    /\ LET r == detach(sg, node_index)
       IN  /\ sg' = r.sg
           /\ held' = IF r.res = "Some" THEN [some |-> TRUE, graph |-> r.new_sg] ELSE held
           /\ last' = Call("detach", node_index, None, r.res)
    /\ UNCHANGED <<diter, saved>>

MoveNode(moving_node_idx, new_parent) ==
    /\ Ready
    /\ calls' = calls + 1
    /\ LET r == move_node(sg, moving_node_idx, new_parent)
       IN  /\ sg' = r.sg
           /\ last' = Call("move_node", moving_node_idx, new_parent, r.res)
    /\ UNCHANGED <<held, diter, saved>>

Remove(node_index) ==
    /\ Ready
    /\ calls' = calls + 1
    /\ LET r == remove(sg, node_index)
       IN  /\ sg' = r.sg
           /\ last' = Call("remove", node_index, None, r.res)
    /\ UNCHANGED <<held, diter, saved>>

Clear ==
    /\ Ready
    /\ calls' = calls + 1
    /\ sg' = clear(sg)
    /\ last' = Call("clear", None, None, "Ok")
    /\ UNCHANGED <<held, diter, saved>>

\* The values a caller writes through get_mut, root_mut and iter_mut.
WriteValues == {MaxHandle + 1}

\* `saved = *sg.get(node_index)?`: the caller keeps a copy of the node, links
\* included (Node is Copy).  Root and absent handles give None.
Get(node_index) ==
    /\ Ready
    /\ calls' = calls + 1
    /\ LET read == get(sg, node_index)
       IN  /\ saved' = IF read.some THEN read ELSE saved
           /\ last' = Call("get", node_index, None, IF read.some THEN "Some" ELSE "None")
    /\ UNCHANGED <<sg, held, diter>>

\* `*sg.get_mut(node_index)? = saved`: the copy the caller kept, however old,
\* is written over the node under node_index.
GetMutNode(node_index) ==
    /\ Ready
    /\ calls' = calls + 1
    /\ saved.some
    /\ LET r == get_mut(sg, node_index, saved.node)
       IN  /\ sg' = r.sg
           /\ last' = Call("get_mut", node_index, None, r.res)
    /\ UNCHANGED <<held, diter, saved>>

\* `sg.get_mut(node_index)?.value = value`.
GetMutValue(node_index, value) ==
    /\ Ready
    /\ calls' = calls + 1
    /\ LET read == get(sg, node_index)
           r == IF read.some
                THEN get_mut(sg, node_index, [read.node EXCEPT !.value = value])
                ELSE Outcome(sg, "None")
       IN  /\ sg' = r.sg
           /\ last' = Call("get_mut_value", node_index, value, r.res)
    /\ UNCHANGED <<held, diter, saved>>

\* `*sg.root_mut() = value`.
RootMut(value) ==
    /\ Ready
    /\ calls' = calls + 1
    /\ sg' = root_mut(sg, value)
    /\ last' = Call("root_mut", None, value, "Ok")
    /\ UNCHANGED <<held, diter, saved>>

\* A mutable traversal from node_index that writes `value` to every child it
\* yields.  A traversal that never ends is a call that never returns: it has
\* no state afterwards.
IterMutWrite(node_index, value) ==
    /\ Ready
    /\ calls' = calls + 1
    /\ LET r == iter_mut_write(sg, node_index, value)
       IN  /\ r.res # "Diverges"
           /\ sg' = r.sg
           /\ last' = Call("iter_mut", node_index, value, r.res)
    /\ UNCHANGED <<held, diter, saved>>

\* iter_detach: the children of node_index are taken and the traversal starts.
iter_detach(g, node_index) ==
    IF node_index # Root /\ ~ArenaContains(g.arena, node_index)
    THEN [sg |-> g, res |-> "NodeDoesNotExist", stacks |-> <<>>]
    ELSE LET children == ChildrenOf(g, node_index)
             g1 == SetChildrenOf(g, node_index, NoChildren)
             it == DetachIterNew(g1.arena, node_index, children)
         IN  [sg |-> [g1 EXCEPT !.arena = it.arena],
              res |-> IF it.panic THEN "Panic" ELSE "Ok",
              stacks |-> it.stacks]

IterDetach(node_index) ==
    /\ Ready
    /\ calls' = calls + 1
    /\ LET r == iter_detach(sg, node_index)
       IN  /\ sg' = r.sg
           /\ diter' = IF r.res = "Ok"
                       THEN [live |-> TRUE, head |-> node_index, stacks |-> r.stacks,
                             below |-> Descendants(sg, node_index)]
                       ELSE diter
           /\ last' = Call("iter_detach", node_index, None, r.res)
    /\ UNCHANGED <<held, saved>>

IterDetachFromRoot ==
    /\ Ready
    /\ calls' = calls + 1
    /\ LET r == iter_detach(sg, Root)
       IN  /\ sg' = r.sg
           /\ diter' = IF r.res = "Ok"
                       THEN [live |-> TRUE, head |-> Root, stacks |-> r.stacks,
                             below |-> Descendants(sg, Root)]
                       ELSE diter
           /\ last' = Call("iter_detach_from_root", None, None, r.res)
    /\ UNCHANGED <<held, saved>>

\* One next() of the traversal the caller holds.
DetachIterNext ==
    /\ last.res # "Panic"
    /\ diter.live
    /\ IF diter.stacks = <<>>
       THEN /\ last' = Call("detach_next", None, None, "None")
            /\ UNCHANGED <<sg, diter>>
       ELSE LET it == DetachIter(sg.arena, diter.stacks, FALSE)
                nxt == DetachIterNextIt(it)
                item == DetachIterNextItem(it)
            IN  /\ sg' = [sg EXCEPT !.arena = nxt.arena]
                /\ diter' = [diter EXCEPT !.stacks = nxt.stacks]
                /\ last' = Call("detach_next", item.node_idx, item.parent_idx,
                                IF nxt.panic THEN "Panic" ELSE "Some")
    /\ UNCHANGED <<held, calls, saved>>

\* The traversal is dropped: it drains itself.
DetachIterDrop ==
    /\ last.res # "Panic"
    /\ diter.live
    /\ LET run == DetachIterRun(DetachIter(sg.arena, diter.stacks, FALSE), <<>>)
       IN  /\ sg' = [sg EXCEPT !.arena = run.it.arena]
           /\ last' = Call("detach_drop", diter.head, None,
                           IF run.it.panic THEN "Panic" ELSE "Ok")
    /\ diter' = NoIter
    /\ UNCHANGED <<held, calls, saved>>

Next ==
    \/ \E parent \in Known, value \in FreshValues : Attach(parent, value)
    \/ \E parent \in Known : AttachGraph(parent)
    \/ \E node_index \in Known : Detach(node_index)
    \/ \E moving_node_idx \in Known, new_parent \in Known : MoveNode(moving_node_idx, new_parent)
    \/ \E node_index \in Known : Remove(node_index)
    \/ Clear
    \/ \E node_index \in Known : Get(node_index)
    \/ \E node_index \in Known : GetMutNode(node_index)
    \/ \E node_index \in Known, value \in WriteValues : GetMutValue(node_index, value)
    \/ \E value \in WriteValues : RootMut(value)
    \/ \E node_index \in Known, value \in WriteValues : IterMutWrite(node_index, value)
    \/ \E node_index \in Known : IterDetach(node_index)
    \/ IterDetachFromRoot
    \/ DetachIterNext
    \/ DetachIterDrop

Spec == Init /\ [][Next]_vars

\* A second starting point, for behaviours longer than MaxCalls calls from the
\* empty graph: the tree Root -> [fg, sc], fg -> [g1, g2] that four attach
\* calls build on a new graph, followed by DeepCalls further calls.
DeepCalls == 4

Fixture ==
    LET fg == attach(SceneGraphNew(RootValue), Root, 1)
        g1 == attach(fg.sg, fg.idx, 2)
        g2 == attach(g1.sg, fg.idx, 3)
        sc == attach(g2.sg, Root, 4)
    IN  sc.sg

InitBuilt ==
    /\ sg = Fixture
    /\ held = NoGraph
    /\ saved = NoNode
    /\ diter = NoIter
    /\ last = Call("attach", Root, 4, "Ok")
    /\ calls = MaxCalls - DeepCalls

\* The calls that follow the built tree are those that link, unlink and drain
\* nodes; the writes through get_mut, root_mut and iter_mut are followed from
\* the empty graph only (Spec).
NextBuilt ==
    \/ \E parent \in Known, value \in FreshValues : Attach(parent, value)
    \/ \E parent \in Known : AttachGraph(parent)
    \/ \E node_index \in Known : Detach(node_index)
    \/ \E moving_node_idx \in Known, new_parent \in Known : MoveNode(moving_node_idx, new_parent)
    \/ \E node_index \in Known : Remove(node_index)
    \/ Clear
    \/ \E node_index \in Known : IterDetach(node_index)
    \/ IterDetachFromRoot
    \/ DetachIterNext
    \/ DetachIterDrop

SpecBuilt == InitBuilt /\ [][NextBuilt]_vars

-----------------------------------------------------------------------------
(* Vocabulary of the properties.                                           *)

\* A public call has completed: no panic, and no traversal borrows the graph.
Quiescent == last.res # "Panic" /\ ~diter.live


\* Follows next_sibling (fwd) or last_sibling (~fwd) from cur: the nodes met, and
\* whether the walk ended at None without meeting an absent node or a loop.
RECURSIVE Walk(_, _, _, _, _)
Walk(g, cur, fwd, acc, fuel) ==
    IF cur = None THEN [items |-> acc, ok |-> TRUE]
    ELSE IF cur \notin Live(g) \/ fuel = 0 THEN [items |-> acc, ok |-> FALSE]
    ELSE Walk(g, IF fwd THEN NodeAt(g, cur).next_sibling ELSE NodeAt(g, cur).last_sibling,
              fwd, Append(acc, cur), fuel - 1)

Range(seq) == {seq[i] : i \in 1..Len(seq)}

\* The members of the child list of p: the nodes met from children.first.
ChildSeq(g, p) ==
    IF ChildrenOf(g, p).some
    THEN Walk(g, ChildrenOf(g, p).first, TRUE, <<>>, IterFuel).items
    ELSE <<>>
Members(g, p) == Range(ChildSeq(g, p))

\* One child list is a consistent doubly linked list.
ListConsistent(g, p) ==
    LET ch == ChildrenOf(g, p)
        fwd == Walk(g, ch.first, TRUE, <<>>, IterFuel)
        bwd == Walk(g, ch.last, FALSE, <<>>, IterFuel)
    IN  ch.some =>
          /\ fwd.ok /\ fwd.items # <<>> /\ fwd.items[Len(fwd.items)] = ch.last
          /\ bwd.ok /\ bwd.items # <<>> /\ bwd.items[Len(bwd.items)] = ch.first
          /\ NodeAt(g, ch.first).last_sibling = None
          /\ NodeAt(g, ch.last).next_sibling = None

SiblingListsConsistent(g) ==
    /\ \A p \in Parents(g) : ListConsistent(g, p)
    /\ \A a \in Live(g), b \in Live(g) :
          (NodeAt(g, a).next_sibling = b) <=> (NodeAt(g, b).last_sibling = a)

\* Follows parent fields from n: Root is reached within `fuel` steps.
RECURSIVE ReachesRoot(_, _, _)
ReachesRoot(g, n, fuel) ==
    IF n = Root THEN TRUE
    ELSE IF n \notin Live(g) \/ fuel = 0 THEN FALSE
    ELSE ReachesRoot(g, NodeAt(g, n).parent, fuel - 1)

\* The number of places at which n occurs in the child lists.
Occurrences(g, n) ==
    Cardinality({<<p, i>> \in Parents(g) \X (1..IterFuel) :
                    i <= Len(ChildSeq(g, p)) /\ ChildSeq(g, p)[i] = n})

IsTree(g) ==
    \A n \in Live(g) : Occurrences(g, n) = 1 /\ ReachesRoot(g, n, MaxHandle + 1)

\* Every handle stored in the structure names a present node.
PresentOrNone(g, h) == h = None \/ h \in Live(g)
ChildrenPresent(g, ch) == ch.some => (ch.first \in Live(g) /\ ch.last \in Live(g))
AllLinksPresent(g) ==
    /\ ChildrenPresent(g, g.root_children)
    /\ \A n \in Live(g) :
          /\ ChildrenPresent(g, NodeAt(g, n).children)
          /\ PresentOrNone(g, NodeAt(g, n).next_sibling)
          /\ PresentOrNone(g, NodeAt(g, n).last_sibling)
          /\ NodeAt(g, n).parent \in Parents(g)

\* The parent field and the membership in child lists agree.
ParentMatchesMembership(g) ==
    \A n \in Live(g), p \in Parents(g) :
        (NodeAt(g, n).parent = p) <=> (n \in Members(g, p))

-----------------------------------------------------------------------------
(* The claims.                                                             *)

\* C1: after every sequence of public calls every child list is a consistent
\* doubly linked list: from first, next_sibling reaches last and then None; from
\* last, last_sibling reaches first and then None; and a.next_sibling = b
\* exactly when b.last_sibling = a.
C1_SiblingListsConsistent == Quiescent => SiblingListsConsistent(sg)

\* C2: after every sequence of public calls the linkage is a tree: every
\* present node occurs in exactly one child list, exactly once, and its parent
\* chain reaches Root; also after a move_node onto the node itself or onto one
\* of its descendants.
C2_IsTree == Quiescent => IsTree(sg)

\* C3: every handle stored in the surviving structure (children.first/last,
\* next_sibling, last_sibling, parent) refers to a node present in the arena.
C3_AllLinksPresent == Quiescent => AllLinksPresent(sg)

\* C4: for every present node n and every parent p (Root or a present node),
\* n.parent = p exactly when n is a member of the child list of p.
C4_ParentMatchesMembership == Quiescent => ParentMatchesMembership(sg)

\* C5: an attach that returns ParentNodeNotFound modifies nothing (the arena,
\* len(), root_children and every link are as before), and attach under Root
\* never fails.
C5_FailedAttachChangesNothing ==
    [][(last'.op = "attach" /\ calls' = calls + 1)
          => /\ (last'.res = "ParentNodeNotFound" => sg' = sg)
             /\ (last'.a = Root => last'.res # "ParentNodeNotFound")]_vars

\* C6: move_node returns NodeDoesNotExist exactly when the node is Root, the
\* node is an absent handle, or the new parent is an absent handle; and a call
\* that returns the error leaves the whole graph as it was.
C6_MoveNodeErrors ==
    [][(last'.op = "move_node" /\ calls' = calls + 1)
          => /\ (last'.res = "NodeDoesNotExist")
                  <=> \/ last'.a = Root
                      \/ last'.a \notin Live(sg)
                      \/ last'.b \notin Parents(sg)
             /\ (last'.res = "NodeDoesNotExist" => sg' = sg)]_vars

\* A move_node of a present node onto an absent parent has returned the error.
C6_Witness ==
    /\ last.op = "move_node" /\ last.res = "NodeDoesNotExist"
    /\ last.a \in Live(sg) /\ last.b \notin Parents(sg)

\* The traversal from `start` is in pre-order and names the actual parents.
PreOrderFrom(g, start) ==
    LET items == iter_from_node(g, start).items
        n == Len(items)
        node(i) == items[i].node_idx
    IN  /\ \A i \in 1..n :
              items[i].parent = ValueOf(g, NodeAt(g, node(i)).parent)
        /\ \A i \in 1..n, j \in 1..n :
              /\ IsDescendant(g, node(j), node(i), MaxHandle + 1) => i < j
              /\ NodeAt(g, node(i)).next_sibling = node(j) => i < j
              /\ \A k \in 1..n :
                    (NodeAt(g, node(i)).next_sibling = node(j)
                       /\ IsDescendant(g, node(k), node(i), MaxHandle + 1)) => k < j

\* C7: iter() and iter_from_node(n) yield (parent value, node value) pairs in
\* pre-order: a node before its descendants, siblings in child-list order, the
\* descendants of a node before its next sibling; and the parent component is
\* the value of the node's actual parent.
C7_PreOrder == Quiescent => \A start \in Parents(sg) : PreOrderFrom(sg, start)

\* The graph is Root with the children [a, b], a with the single child a1,
\* and b and a1 without children.
ShapeABA1(g, a, b, a1) ==
    /\ {a, b, a1} \subseteq Live(g) /\ Cardinality({a, b, a1}) = 3
    /\ g.root_children = SomeChildren(a, b)
    /\ NodeAt(g, a).next_sibling = b /\ NodeAt(g, b).next_sibling = None
    /\ NodeAt(g, a).children = SomeChildren(a1, a1)
    /\ NodeAt(g, a1).next_sibling = None
    /\ ~NodeAt(g, a1).children.some /\ ~NodeAt(g, b).children.some

\* C8 (as claimed): on the graph Root -> [A, B], A -> [A1], B -> [], iter()
\* yields the node values in the order [A, B, A1].
C8_OrderABA1 ==
    Quiescent =>
      \A a \in Live(sg), b \in Live(sg), a1 \in Live(sg) :
          ShapeABA1(sg, a, b, a1) =>
             NodeValues(iter(sg).items) =
                <<ValueOf(sg, a), ValueOf(sg, b), ValueOf(sg, a1)>>

\* C8 (amended): on the graph Root -> [A, B], A -> [A1], B -> [], iter() ends
\* after yielding the pairs (Root, A), (A, A1), (Root, B), in that order: the
\* child A1 of A comes before A's next sibling B.
C8_OrderAA1B ==
    Quiescent =>
      \A a \in Live(sg), b \in Live(sg), a1 \in Live(sg) :
          ShapeABA1(sg, a, b, a1) =>
             /\ iter(sg).res = "Ok"
             /\ Pairs(iter(sg).items) =
                   << <<sg.root, ValueOf(sg, a)>>,
                      <<ValueOf(sg, a), ValueOf(sg, a1)>>,
                      <<sg.root, ValueOf(sg, b)>> >>

\* The graph of C8 has been built by attaching A, B and then A1 under A.
C8_Witness ==
    /\ Quiescent /\ last.op = "attach" /\ last.res = "Ok"
    /\ \E a \in Live(sg), b \in Live(sg) :
          /\ last.a = a /\ ShapeABA1(sg, a, b, last.b)
          /\ ValueOf(sg, a) < ValueOf(sg, b) /\ ValueOf(sg, b) < ValueOf(sg, last.b)

\* The outcome of a traversal: how it ended and the pairs it yielded.
Yield(r) == [res |-> r.res, pairs |-> Pairs(r.items)]

\* detach(n) followed by attach_graph(parent of n, the detached graph).
RoundTrip(g, n) ==
    LET d == detach(g, n)
    IN  IF d.res # "Some" THEN Outcome(d.sg, "Panic")
        ELSE LET r == attach_graph_unsafe(d.sg, NodeAt(g, n).parent, d.new_sg)
             IN  Outcome(r.sg, r.res)

\* The arena can still hand out the handles the round trip of n needs.
RoundTripFits(g, n) == g.arena.next + len(detach(g, n).new_sg) <= MaxHandle

\* n is the last child of its parent.
IsLastChild(g, n) ==
    /\ NodeAt(g, n).parent \in Parents(g)
    /\ ChildrenOf(g, NodeAt(g, n).parent).some
    /\ ChildrenOf(g, NodeAt(g, n).parent).last = n
    /\ NodeAt(g, n).next_sibling = None

\* iter() ends normally and yields every present node exactly once.
IterEnumerates(g) ==
    /\ iter(g).res = "Ok"
    /\ Len(iter(g).items) = Cardinality(Live(g))
    /\ Range(NodeIdxs(iter(g).items)) = Live(g)

\* C9 (as claimed): for every present node n, whatever its position among the
\* children of its parent p, detach(n) followed by attach_graph(p, detached)
\* gives a graph whose iter() sequence of (parent value, node value) pairs is
\* the sequence before the detach.
C9_RoundTripAnyPosition ==
    Quiescent =>
      \A n \in Live(sg) :
          LET rt == RoundTrip(sg, n)
          IN  (RoundTripFits(sg, n) /\ rt.res = "Ok")
                 => Yield(iter(rt.sg)) = Yield(iter(sg))

\* C9, for the one position in which attach_graph, which appends, can give
\* the order back: for every present node n that is the last (or only) child
\* of its parent p, detach(n) followed by attach_graph(p, detached) succeeds
\* and gives a graph whose iter() sequence of (parent value, node value) pairs
\* is the sequence before the detach.
C9_RoundTripLastChild ==
    Quiescent =>
      \A n \in Live(sg) :
          LET rt == RoundTrip(sg, n)
          IN  (IsLastChild(sg, n) /\ RoundTripFits(sg, n))
                 => /\ rt.res = "Ok"
                    /\ Yield(iter(rt.sg)) = Yield(iter(sg))

\* The round trip of a last child that has an elder sibling and a child of its
\* own, in a well-formed tree: the subtree comes back under new handles and the
\* sequence is the same.
C9_Witness ==
    /\ Quiescent /\ IsTree(sg) /\ SiblingListsConsistent(sg)
    /\ \E n \in Live(sg) :
          LET rt == RoundTrip(sg, n)
          IN  /\ IsLastChild(sg, n) /\ RoundTripFits(sg, n) /\ IterEnumerates(sg)
              /\ NodeAt(sg, n).last_sibling # None
              /\ NodeAt(sg, n).children.some
              /\ rt.res = "Ok"
              /\ n \notin Live(rt.sg)
              /\ Yield(iter(rt.sg)) = Yield(iter(sg))

\* C10: a detach(n) that returns a graph returns one whose root value is the
\* value of n and whose iter() sequence is what iter_from_node(n) yielded
\* before the call; and iter() of the original graph afterwards is its
\* previous sequence without the entries of n and of the descendants of n.
C10_DetachSplitsSequence ==
    [][(last'.op = "detach" /\ last'.res = "Some" /\ calls' = calls + 1)
          => LET n == last'.a
                 Keep(it) == ~InSubtree(sg, it.node_idx, n)
             IN  /\ held'.graph.root = ValueOf(sg, n)
                 /\ Yield(iter(held'.graph)) = Yield(iter_from_node(sg, n))
                 /\ iter(sg').res = iter(sg).res
                 /\ Pairs(iter(sg').items) = Pairs(SelectSeq(iter(sg).items, Keep))]_vars

\* The sequence seq without the element x.
Without(seq, x) == SelectSeq(seq, LAMBDA e : e # x)

\* The head of a child list that holds exactly seq.
HeadOf(seq) ==
    IF seq = <<>> THEN NoChildren ELSE SomeChildren(seq[1], seq[Len(seq)])

\* c is a child of p whose child list iter_direct_children can enumerate.
IsChildOf(g, c, p) ==
    /\ c \in Live(g) /\ p \in Parents(g)
    /\ NodeAt(g, c).parent = p
    /\ iter_direct_children(g, p).res = "Ok"
    /\ c \in Range(iter_direct_children(g, p).items)

\* C11: for a parent p with the child sequence S and a child c of p (sole,
\* first, last or interior), after remove(c) or detach(c)
\* iter_direct_children(p) yields S without c, the others in their order, and
\* the first/last of p designate the ends of that sequence (None when empty).
C11_BoundaryDeletions ==
    [][(last'.op \in {"remove", "detach"} /\ last'.res \in {"Ok", "Some"}
          /\ calls' = calls + 1)
          => LET c == last'.a
                 p == NodeAt(sg, c).parent
                 S == iter_direct_children(sg, p).items
             IN  (c # Root /\ IsChildOf(sg, c, p))
                    => /\ iter_direct_children(sg', p).res = "Ok"
                       /\ iter_direct_children(sg', p).items = Without(S, c)
                       /\ ChildrenOf(sg', p) = HeadOf(Without(S, c))]_vars

\* C12: remove(n) on a present Branch node n removes from the arena exactly n
\* and the transitive descendants of n: contains(h) is false for each of them
\* afterwards, every other node stays, and len() has decreased by the size of
\* the subtree of n.
C12_RemoveFreesSubtree ==
    [][(last'.op = "remove" /\ calls' = calls + 1 /\ last'.a \in Live(sg))
          => /\ last'.res = "Ok"
             /\ \A h \in Subtree(sg, last'.a) : ~contains(sg', h)
             /\ Live(sg') = Live(sg) \ Subtree(sg, last'.a)
             /\ len(sg') = len(sg) - Cardinality(Subtree(sg, last'.a))]_vars

\* The handles the step that has just been taken may invalidate: the target
\* of a remove, detach or iter_detach and the descendants of that target; for
\* a step of a detaching traversal, the descendants of its start node.  Writes
\* through get_mut and iter_mut are outside the steps the claim speaks of.
MayInvalidate ==
    CASE last'.op \in {"remove", "detach", "iter_detach"} -> Subtree(sg, last'.a)
      [] last'.op = "iter_detach_from_root" -> Subtree(sg, Root)
      [] last'.op \in {"detach_next", "detach_drop"} -> diter.below \cup {diter.head}
      [] last'.op = "clear" -> Live(sg)
      [] last'.op \in {"get_mut", "get_mut_value", "iter_mut"} -> Live(sg)
      [] OTHER -> {}

\* The handles handed out so far.
Issued(g) == 1..(g.arena.next - 1)

\* C13: a handle h returned by attach stays valid (contains(h) holds and the
\* value stored under h is the same) across every later attach, every
\* move_node, and every remove, detach and iter_detach whose target is neither
\* h nor an ancestor of h; and once h has been removed, contains(h) is false
\* in every later state, however many nodes are attached afterwards.
\* (Evaluated from the built tree: the shortest violation needs eight calls.)
C13_HandleStability ==
    [][last'.res # "Panic"
          => /\ \A h \in Live(sg) :
                   \/ h \in MayInvalidate
                   \/ (contains(sg', h) /\ ValueOf(sg', h) = ValueOf(sg, h))
             /\ \A h \in Issued(sg) \ Live(sg) : ~contains(sg', h)]_vars

\* The last element of a sequence of handles, None for the empty sequence.
LastOf(seq) == IF seq = <<>> THEN None ELSE seq[Len(seq)]

\* C14: a successful attach(p, v) appends the new node as the last child of p:
\* iter_direct_children(p) afterwards is the previous sequence followed by the
\* new node, the new node has no children, its parent is p, its last_sibling
\* is the previous last child of p (None if there was none), its next_sibling
\* is None, len() has grown by exactly 1, and no other child list changes.
C14_AttachAppends ==
    [][(last'.op = "attach" /\ last'.res = "Ok" /\ calls' = calls + 1)
          => LET p == last'.a
                 n == last'.b
                 before == iter_direct_children(sg, p)
             IN  before.res = "Ok"
                    => /\ iter_direct_children(sg', p) =
                             [items |-> Append(before.items, n), res |-> "Ok"]
                       /\ NodeAt(sg', n) =
                             [NodeNew(ValueOf(sg', n), p)
                                 EXCEPT !.last_sibling = LastOf(before.items)]
                       /\ len(sg') = len(sg) + 1
                       /\ \A q \in Parents(sg) \ {p} :
                             iter_direct_children(sg', q) = iter_direct_children(sg, q)]_vars

\* C15: a successful move_node(n, p) makes n the last child of p and takes n
\* out of the child list of its old parent, whose remaining children keep
\* their order; the parent of n is p afterwards; the direct children and the
\* whole subtree of n are unchanged; len() and the set of present handles are
\* unchanged.
C15_MoveNodeRelinks ==
    [][(last'.op = "move_node" /\ last'.res = "Ok" /\ calls' = calls + 1)
          => LET n == last'.a
                 p == last'.b
                 old == NodeAt(sg, n).parent
                 in_p == iter_direct_children(sg, p)
                 in_old == iter_direct_children(sg, old)
             IN  (in_p.res = "Ok" /\ in_old.res = "Ok")
                    => /\ iter_direct_children(sg', p) =
                             [items |-> Append(Without(in_p.items, n), n), res |-> "Ok"]
                       /\ old # p => iter_direct_children(sg', old) =
                                        [items |-> Without(in_old.items, n), res |-> "Ok"]
                       /\ NodeAt(sg', n).parent = p
                       /\ iter_direct_children(sg', n) = iter_direct_children(sg, n)
                       /\ Descendants(sg', n) = Descendants(sg, n)
                       /\ Live(sg') = Live(sg) /\ len(sg') = len(sg)]_vars

\* What the claim states of attach_graph(p, other) on the graph g with the
\* outcome r: the node r.idx carries other's root value and is the new last
\* child of p, iter_from_node(r.idx) yields the pairs other.iter() yielded, and
\* len() has grown by other.len() + 1.
AttachGraphSplices(g, p, other, r) ==
    /\ r.idx \in Live(r.sg)
    /\ ValueOf(r.sg, r.idx) = other.root
    /\ NodeAt(r.sg, r.idx).parent = p
    /\ iter_direct_children(g, p).res = "Ok"
          => iter_direct_children(r.sg, p) =
                [items |-> Append(iter_direct_children(g, p).items, r.idx), res |-> "Ok"]
    /\ Yield(iter_from_node(r.sg, r.idx)) = Yield(iter(other))
    /\ len(r.sg) = len(g) + len(other) + 1

\* C16: a successful attach_graph(p, other) adds a node carrying other's root
\* value as the new last child of p and returns its index r;
\* iter_from_node(r) afterwards yields the (parent value, node value) sequence
\* that other.iter() yielded before the call, and len() grows by exactly
\* other.len() + 1.  Here `other` is any graph the calls can build, and it is
\* attached under the Root of a new graph.
C16_AttachGraphSplices ==
    (Quiescent /\ len(sg) < MaxHandle)
       => LET g == SceneGraphNew(RootValue)
              r == attach_graph_unsafe(g, Root, sg)
          IN  r.res = "Ok" => AttachGraphSplices(g, Root, sg, r)

\* C17: a detaching traversal created by iter_detach(n) or by
\* iter_detach_from_root, consumed for any number of steps and then dropped,
\* has removed the whole subtree below its start node: after the drop no
\* descendant of the start node is present, the start node has no children,
\* and after iter_detach_from_root len() = 0 and is_empty() holds.
C17_DropDrains ==
    [][last'.op = "detach_drop"
          => /\ last'.res = "Ok"
             /\ diter.below \cap Live(sg') = {}
             /\ diter.head \in Parents(sg') => ~ChildrenOf(sg', diter.head).some
             /\ diter.head = Root => (len(sg') = 0 /\ is_empty(sg'))]_vars

\* iter_detach(n) run to its end: how it ended and the nodes it yielded.
DetachYield(g, n) ==
    LET r == iter_detach(g, n)
        run == DetachIterRun(DetachIter(r.sg.arena, r.stacks, FALSE), <<>>)
    IN  IF r.res # "Ok" THEN [res |-> r.res, items |-> <<>>]
        ELSE [res |-> IF run.it.panic THEN "Panic" ELSE "Ok", items |-> run.items]

DetachedValues(items) == [i \in 1..Len(items) |-> items[i].node_value]

\* C18: the detaching traversal visits the nodes in the order of the read-only
\* traversal: for every start node n (Root for iter_detach_from_root and
\* iter()), the node values yielded by iter_detach(n) are the node values
\* that iter_from_node(n) yields on the same graph, and every yielded
\* parent_idx is the handle of the parent of the node yielded.
C18_DetachOrderIsIterOrder ==
    Quiescent =>
      \A n \in Parents(sg) :
          LET d == DetachYield(sg, n)
              ro == iter_from_node(sg, n)
          IN  /\ d.res = ro.res
              /\ DetachedValues(d.items) = NodeValues(ro.items)
              /\ \A i \in 1..Len(d.items) :
                    d.items[i].parent_idx = NodeAt(sg, d.items[i].node_idx).parent

\* C19: the mutable traversal visits the same (parent, child) pairs in the
\* same order as the read-only traversal: for every graph and start node n,
\* iter_mut_from_node(n) and iter_from_node(n) end the same way and yield
\* sequences that agree item for item.  (The mutable traversal writes no link:
\* next() only reads next_sibling and children.)
C19_IterMutIsIter ==
    Quiescent =>
      \A n \in Parents(sg) : iter_mut_from_node(sg, n) = iter_from_node(sg, n)

\* The nodes whose values the items hand out, two per item: the parent, then
\* the child.
Handed(items) ==
    [k \in 1..(2 * Len(items)) |->
        IF k % 2 = 1 THEN items[(k + 1) \div 2].parent_idx ELSE items[k \div 2].node_idx]

NoRepeat(seq) == \A i \in 1..Len(seq), j \in 1..Len(seq) : seq[i] = seq[j] => i = j

\* C20: during one mutable depth-first traversal no node is yielded more than
\* once: over all items (parent, child) of one iter_mut or iter_mut_from_node
\* run, no node's value (Root included) is handed out in more than one
\* yielded reference, in the parent or in the child position.
C20_IterMutNoAlias ==
    Quiescent =>
      \A n \in Parents(sg) : NoRepeat(Handed(iter_mut_from_node(sg, n).items))

\* A collected traversal came to its end after at most len() items.
EndsWithin(g, r) == r.res # "Diverges" /\ Len(r.items) <= len(g)

\* C21: every traversal is finite: in every reachable state and for every
\* present start node n (and Root), iter_from_node(n), iter_mut_from_node(n),
\* iter_direct_children(n) and iter_detach(n) return None after a finite
\* number of next() calls, having yielded at most len() items.
C21_TraversalsFinite ==
    Quiescent =>
      \A n \in Parents(sg) :
          /\ EndsWithin(sg, iter_from_node(sg, n))
          /\ EndsWithin(sg, iter_mut_from_node(sg, n))
          /\ EndsWithin(sg, iter_direct_children(sg, n))
          /\ EndsWithin(sg, DetachYield(sg, n))

\* C22: detach(Root) and detach(h) for a Branch handle h that is not present
\* both return None and leave the whole graph state unchanged.
C22_DetachOfNothing ==
    [][(last'.op = "detach" /\ calls' = calls + 1
          /\ (last'.a = Root \/ last'.a \notin Live(sg)))
          => (last'.res = "None" /\ sg' = sg /\ held' = held)]_vars

\* detach(Root) has returned None on a graph that holds nodes.
C22_Witness ==
    /\ last.op = "detach" /\ last.a = Root /\ last.res = "None"
    /\ len(sg) > 0 /\ sg.root_children.some

\* C23: remove(Root) is a fatal error (panic) in every state and removes or
\* modifies nothing, whereas remove(h) for a Branch handle h that is not
\* present returns normally and leaves the graph unchanged.
C23_RemoveOfNothing ==
    [][(last'.op = "remove" /\ calls' = calls + 1)
          => /\ last'.a = Root => (last'.res = "Panic" /\ sg' = sg)
             /\ (last'.a # Root /\ last'.a \notin Live(sg))
                   => (last'.res = "Ok" /\ sg' = sg)]_vars

\* remove(Root) has panicked on a graph that holds nodes.
C23_Witness ==
    /\ last.op = "remove" /\ last.a = Root /\ last.res = "Panic"
    /\ len(sg) > 0 /\ sg.root_children.some

\* C24: from any reachable state, clear() leaves a graph with is_empty()
\* true, len() = 0, root_children = None and the root value unchanged; a second
\* clear() changes nothing; and a following attach_at_root succeeds and makes
\* the new node the only child of Root.
C24_ClearEmpties ==
    [][(last'.op = "clear" /\ calls' = calls + 1)
          => /\ is_empty(sg') /\ len(sg') = 0
             /\ sg'.root_children = NoChildren /\ sg'.root = sg.root
             /\ clear(sg') = sg'
             /\ sg'.arena.next <= MaxHandle
                   => LET r == attach_at_root(sg', sg'.arena.next)
                      IN  /\ r.res = "Ok"
                          /\ r.sg.root_children = SomeChildren(r.idx, r.idx)
                          /\ iter_direct_children(r.sg, Root) =
                                [items |-> <<r.idx>>, res |-> "Ok"]
                          /\ len(r.sg) = 1]_vars

\* clear() has run after handles were handed out, and the arena can still
\* hand out the handle of the following attach_at_root.
C24_Witness ==
    /\ last.op = "clear" /\ sg.arena.next > 2 /\ sg.arena.next <= MaxHandle
    /\ attach_at_root(sg, sg.arena.next).res = "Ok"

\* The handles that were handed out and are no longer present.
Absent(g) == Issued(g) \ Live(g)

\* The four traversal requests for the handle h all end with `res`.
TraversalRequests(g, h, res) ==
    /\ iter_from_node(g, h).res = res
    /\ iter_mut_from_node(g, h).res = res
    /\ iter_direct_children(g, h).res = res
    /\ iter_detach(g, h).res = res

\* C25 (as claimed): iteration never fails: iter_from_node, iter_mut_from_node,
\* iter_direct_children and iter_detach for a handle that is not present
\* yield an empty sequence rather than an error.
C25_AbsentYieldsEmpty ==
    Quiescent =>
      \A h \in Absent(sg) :
          /\ TraversalRequests(sg, h, "Ok")
          /\ iter_from_node(sg, h).items = <<>>
          /\ DetachYield(sg, h).items = <<>>

\* C25 (amended): iter_from_node, iter_mut_from_node, iter_direct_children and
\* iter_detach for a Branch handle that is not present return the error
\* NodeDoesNotExist, yield nothing, and iter_detach leaves the graph as it was.
C25_AbsentIsError ==
    Quiescent =>
      \A h \in Absent(sg) :
          /\ TraversalRequests(sg, h, "NodeDoesNotExist")
          /\ iter_from_node(sg, h).items = <<>>
          /\ iter_detach(sg, h).sg = sg

\* iter_detach has been called with a removed handle on a graph that holds
\* nodes, and has returned the error.
C25_Witness ==
    /\ Quiescent /\ last.op = "iter_detach" /\ last.res = "NodeDoesNotExist"
    /\ last.a \in Absent(sg) /\ len(sg) > 0

\* The nodes whose parent field names p.
ChildrenByParent(g, p) == {n \in Live(g) : NodeAt(g, n).parent = p}

\* C26: iter_direct_children(p) yields exactly the direct children of p, in
\* child-list order and nothing else: its sequence is the subsequence of the
\* iter_from_node(p) items whose parent is p, it never yields a grandchild,
\* and it yields nothing when p has no children.
C26_DirectChildrenOnly ==
    Quiescent =>
      \A p \in Parents(sg) :
          LET dc == iter_direct_children(sg, p)
              it == iter_from_node(sg, p)
          IN  (dc.res = "Ok" /\ it.res = "Ok")
                 => /\ dc.items = NodeIdxs(SelectSeq(it.items,
                                                     LAMBDA e : e.parent_idx = p))
                    /\ Range(dc.items) = ChildrenByParent(sg, p)
                    /\ ~ChildrenOf(sg, p).some => dc.items = <<>>

\* iter_detach(n) run to its end: how it ended and the graph it leaves.
DetachDrained(g, n) ==
    LET r == iter_detach(g, n)
        run == DetachIterRun(DetachIter(r.sg.arena, r.stacks, FALSE), <<>>)
    IN  IF r.res # "Ok" THEN Outcome(r.sg, r.res)
        ELSE Outcome([r.sg EXCEPT !.arena = DetachIterUnwind(run.it).arena],
                     IF run.it.panic THEN "Panic" ELSE "Ok")

\* C27: iter_detach(n) on a present Branch node n leaves n itself in place:
\* after the traversal has ended contains(n) holds, the value, parent,
\* next_sibling and last_sibling of n are unchanged, n has no children, every
\* node outside the subtree of n is untouched, and a second iter_detach(n)
\* yields nothing; iter_detach_from_root leaves the root value unchanged.
C27_IterDetachKeepsStart ==
    Quiescent =>
      /\ \A n \in Live(sg) :
            LET r == DetachDrained(sg, n)
            IN  r.res = "Ok"
                   => /\ contains(r.sg, n)
                      /\ NodeAt(r.sg, n) = [NodeAt(sg, n) EXCEPT !.children = NoChildren]
                      /\ \A x \in Live(sg) \ Subtree(sg, n) :
                            x \in Live(r.sg) /\ NodeAt(r.sg, x) = NodeAt(sg, x)
                      /\ r.sg.root_children = sg.root_children
                      /\ DetachYield(r.sg, n) = [res |-> "Ok", items |-> <<>>]
      /\ DetachDrained(sg, Root).sg.root = sg.root

\* C28: no public operation other than remove(Root) can panic in a reachable
\* state: every unwrap and every arena index in fix_parent, place_node and the
\* detaching traversal succeeds (the former parent has children, the needed
\* sibling handles are Some, every handle dereferenced is present).
C28_OnlyRemoveRootPanics ==
    [][last'.res = "Panic" => (last'.op = "remove" /\ last'.a = Root)]_vars

\* C29: immediately after a successful move_node(n, p) the moved node carries
\* no pointer to a sibling under its old parent: n.next_sibling is None and
\* n.last_sibling is the child that was last under p before the move (n itself
\* left aside), or None when p had no other child.
C29_MoveNodeClearsSiblings ==
    [][(last'.op = "move_node" /\ last'.res = "Ok" /\ calls' = calls + 1)
          => LET n == last'.a
                 p == last'.b
                 in_p == iter_direct_children(sg, p)
             IN  in_p.res = "Ok"
                    => /\ NodeAt(sg', n).next_sibling = None
                       /\ NodeAt(sg', n).last_sibling =
                             LastOf(Without(in_p.items, n))]_vars

\* C30: in every reachable state and for every start node, each step of the
\* mutable traversal that has a Branch parent borrows two distinct handles
\* (frame.parent # frame.current_child): the two-slot borrow never panics, and
\* the two references of one yielded item never alias.
C30_IterMutBorrowsDistinct ==
    Quiescent =>
      \A n \in Parents(sg) :
          LET r == iter_mut_from_node(sg, n)
          IN  /\ r.res # "Panic"
              /\ \A i \in 1..Len(r.items) : r.items[i].parent_idx # r.items[i].node_idx

\* Every item's parent_idx is the start index or the node_idx of an item
\* yielded earlier.
ParentsComeFirst(items, start) ==
    \A i \in 1..Len(items) :
        \/ items[i].parent_idx = start
        \/ \E j \in 1..(i - 1) : items[j].node_idx = items[i].parent_idx

\* The loop of detach(n) on g: the items its traversal yields, the graph
\* rebuilt from them through the handle remap seeded with n -> Root, how the
\* lookups and re-attaches went (remap: "Panic" when a lookup found no entry or
\* an attach failed) and how the loop ended (res: "Panic" also when the
\* traversal itself panicked, in which case detach does not return).
DetachRebuild(g, n) ==
    LET node == NodeAt(g, n)
        run == DetachIterRun(DetachIterNew(ArenaRemove(g.arena, n), n, node.children), <<>>)
        rebuilt == Reattach(SceneGraphNew(node.value), run.items, {<<n, Root>>}, TRUE)
    IN  [items |-> run.items,
         sg    |-> rebuilt.sg,
         remap |-> rebuilt.res,
         res   |-> IF run.it.panic THEN "Panic" ELSE rebuilt.res]

\* The loop of attach_graph(Root, other) on a new graph: the items drained from
\* other, the graph rebuilt through the remap seeded with Root -> new root, and
\* remap and res as in DetachRebuild.
AttachGraphRebuild(other) ==
    LET first == attach(SceneGraphNew(RootValue), Root, other.root)
        run == DetachIterRun(DetachIterNew(other.arena, Root, other.root_children), <<>>)
        rebuilt == Reattach(first.sg, run.items, {<<Root, first.idx>>}, FALSE)
    IN  [items |-> run.items,
         sg    |-> rebuilt.sg,
         remap |-> rebuilt.res,
         res   |-> IF run.it.panic THEN "Panic" ELSE rebuilt.res]

\* C31: in a detaching traversal every yielded item's parent_idx is the start
\* index of the traversal or the node_idx of an item yielded earlier, so the
\* remap lookup of detach and of attach_graph finds an entry for every item
\* yielded and every re-attach of the reconstruction succeeds: the rebuilt
\* graph holds one node per item yielded.  (The traversal itself may panic on
\* a graph whose links name absent nodes; the lookups and re-attaches of the
\* items yielded until then have succeeded all the same.)
C31_ParentsYieldedFirst ==
    Quiescent =>
      /\ \A n \in Parents(sg) : ParentsComeFirst(DetachYield(sg, n).items, n)
      /\ \A n \in Live(sg) :
            LET d == DetachRebuild(sg, n)
            IN  /\ ParentsComeFirst(d.items, n)
                /\ d.remap = "Ok"
                /\ len(d.sg) = Len(d.items)
      /\ len(sg) < MaxHandle
            => LET a == AttachGraphRebuild(sg)
               IN  /\ ParentsComeFirst(a.items, Root)
                   /\ a.remap = "Ok"
                   /\ len(a.sg) = Len(a.items) + 1

\* A detach has returned a graph of depth two: the remap was consulted for a
\* node yielded earlier in the same traversal, and draining the returned graph
\* for attach_graph consults it for such a node again.
C31_Witness ==
    /\ last.op = "detach" /\ last.res = "Some" /\ held.some
    /\ \E x \in Live(held.graph) : NodeAt(held.graph, x).parent # Root
    /\ \E i \in 1..Len(AttachGraphRebuild(held.graph).items) :
          AttachGraphRebuild(held.graph).items[i].parent_idx # Root

\* C32: in every reachable state (also after failed attach calls and after any
\* move_node) every present node is reachable from Root through the child
\* lists: iter() ends, yields exactly len() items, and every present node is
\* the child component of exactly one of them.
C32_IterCoversArena ==
    Quiescent =>
      LET r == iter(sg)
          idxs == NodeIdxs(r.items)
      IN  /\ r.res = "Ok"
          /\ Len(r.items) = len(sg)
          /\ \A n \in Live(sg) :
                Cardinality({i \in 1..Len(idxs) : idxs[i] = n}) = 1

\* C33: is_empty() and len() agree in every reachable state, after any mix of
\* successful and failed attach, move_node, detach, remove, clear and completed
\* detaching traversals: is_empty() is true exactly when len() = 0.
C33_IsEmptyIffLenZero == Quiescent => (is_empty(sg) <=> len(sg) = 0)

=============================================================================
